---------------------------- MODULE Spec2Model ----------------------------
(***************************************************************************)
(* Model of the Bluejay F1 race-engineer backend:                          *)
(*   agent/rag_pipeline.py  F1TechnicalRAG, initialize_rag_pipeline        *)
(*   agent/tools.py         F1Tools (arithmetic tools)                     *)
(*                                                                         *)
(* Python strings are sequences of string tokens (concatenation is \o).   *)
(* A call's outcome is a record with status "returned" or "raised".       *)
(***************************************************************************)
EXTENDS Integers, Sequences, FiniteSets, TLC

VARIABLES
    cores,      \* the F1TechnicalRAG instances alive in the process
    chroma,     \* the persisted collection at ./chroma_db
    last,       \* the last call made on the retrieval core and its outcome
    prev,       \* the instance returned by the call before it, when that
                \* call was a successful initialize_rag_pipeline; else 0
    toolCall,   \* the last F1Tools call and its outcome
    proc        \* the worker process of main.py: its position, the module's
                \* rag_pipeline global and the sessions it serves

vars == <<cores, chroma, last, prev, toolCall, proc>>

----------------------------------------------------------------------------
(* Bounds of the model *)

\* number of F1TechnicalRAG instances the modelled process may create
MaxCores == 2

\* number of complete chunk-set insertions the persisted collection may hold
MaxBuilds == 2

CoreIds == 1..MaxCores

----------------------------------------------------------------------------
(* The environment: file system, document, embedding provider *)

\* the default pdf_path, which exists, and a path that references no file
DefaultPdfPath == "data/fia2026.pdf"
MissingPdfPath == "data/missing.pdf"
Paths == {DefaultPdfPath, MissingPdfPath}

\* Path(pdf_path).exists()
PathExists(p) == p = DefaultPdfPath

\* what PyPDFLoader(pdf_path).load() yields: the pages of the (unchanged)
\* document, each with its page number and the pieces the splitter cuts it in
Pages == << [page |-> 0, pieces |-> <<"points", "sprint">>],
            [page |-> 1, pieces |-> <<"pitlane">>] >>

\* RecursiveCharacterTextSplitter.split_documents: one chunk per piece, in
\* document order, carrying the page's metadata
RECURSIVE split_documents(_)
split_documents(pages) ==
    IF pages = <<>> THEN <<>>
    ELSE [i \in 1..Len(Head(pages).pieces) |->
             [page |-> Head(pages).page, text |-> Head(pages).pieces[i]]]
         \o split_documents(Tail(pages))

\* the questions asked in the model; one is the exact text of a chunk
Questions == {"sprint", "safetycar"}

\* faults of the collaborators during one call
Faults == {"none", "provider", "index"}

\* OpenAIEmbeddings: the embedding of a text, as a position on a line
Embed(t) ==
    CASE t = "points"    -> 1
      [] t = "sprint"    -> 3
      [] t = "pitlane"   -> 6
      [] t = "safetycar" -> 5
      [] OTHER           -> 0

Abs(x) == IF x < 0 THEN 0 - x ELSE x

Distance(a, b) == Abs(Embed(a) - Embed(b))

None == [type |-> "None"]

NoEffects == [docLoads |-> 0, chunkEmbeds |-> 0, queryEmbeds |-> 0,
              indexOps |-> <<>>]

----------------------------------------------------------------------------
(* Chroma, the vector store *)

\* the collection's state when ./chroma_db does not exist
Absent == [exists |-> FALSE, entries |-> <<>>]

\* Chroma(persist_directory=...): opening the client creates the directory
OpenStore(st) == [st EXCEPT !.exists = TRUE]

\* add_texts: every chunk is added under a fresh id, after the entries that
\* are already in the collection
AddEntries(st, chunks) ==
    [st EXCEPT !.entries =
        st.entries \o [i \in 1..Len(chunks) |->
                          [id |-> Len(st.entries) + i,
                           page |-> chunks[i].page,
                           text |-> chunks[i].text]]]

RemoveAt(s, i) == SubSeq(s, 1, i - 1) \o SubSeq(s, i + 1, Len(s))

\* similarity search: the k entries nearest to the question's embedding,
\* nearest first, ties in insertion order
RECURSIVE SimilaritySearch(_, _, _)
SimilaritySearch(entries, question, k) ==
    IF k <= 0 \/ entries = <<>> THEN <<>>
    ELSE LET best == CHOOSE i \in 1..Len(entries) :
                        \A j \in 1..Len(entries) :
                            \/ Distance(entries[i].text, question)
                                 < Distance(entries[j].text, question)
                            \/ /\ Distance(entries[i].text, question)
                                    = Distance(entries[j].text, question)
                               /\ i <= j
         IN  <<entries[best]>>
             \o SimilaritySearch(RemoveAt(entries, best), question, k - 1)

\* search_kwargs={"k": 4}
RetrieverK == 4

\* variant retrieving one more chunk than search_kwargs asks for
as_retriever_k5 == [type |-> "VectorStoreRetriever", search_type |-> "similarity",
                    k |-> RetrieverK + 1]

\* vectorstore.as_retriever(search_type="similarity", search_kwargs={"k": 4})
as_retriever == [type |-> "VectorStoreRetriever", search_type |-> "similarity",
                 k |-> RetrieverK]

VectorStore == [type |-> "Chroma", persist_directory |-> "./chroma_db"]

----------------------------------------------------------------------------
(* F1TechnicalRAG *)

Raised(type, msg, eff) ==
    [status |-> "raised", error |-> [type |-> type, msg |-> msg],
     value |-> None, effects |-> eff]

Returned(v, eff) ==
    [status |-> "returned", error |-> None, value |-> v, effects |-> eff]

\* F1TechnicalRAG.__init__
F1TechnicalRAG(pdf_path) ==
    IF ~PathExists(pdf_path)
    THEN Raised("FileNotFoundError", "Please place the F1 regulations PDF",
                NoEffects)
    ELSE Returned([pdf_path |-> pdf_path, embeddings |-> "OpenAIEmbeddings",
                   vectorstore |-> None, retriever |-> None], NoEffects)

\* str(n) for the page numbers of the document
PageStr(n) == IF n \in 0..9 THEN <<"0", "1", "2", "3", "4", "5", "6", "7",
                                    "8", "9">>[n + 1]
              ELSE "unknown"

\* f"[Source: Page {page}]\n{page_content}"
SourceBlock(doc) == <<"[Source: Page ", PageStr(doc.page), "]\n", doc.text>>

\* "\n\n".join(blocks)
RECURSIVE JoinBlocks(_)
JoinBlocks(docs) ==
    IF docs = <<>> THEN <<>>
    ELSE IF Len(docs) = 1 THEN SourceBlock(docs[1])
    ELSE SourceBlock(docs[1]) \o <<"\n\n">> \o JoinBlocks(Tail(docs))

\* F1TechnicalRAG.query
query(self, store, question, fault) ==
    IF self.retriever = None
    THEN Raised("ValueError", "RAG pipeline not initialized. Call load_and_process_pdf() first.",
                NoEffects)
    ELSE IF fault = "provider"
    THEN Raised("ProviderError", "embedding request failed",
                [NoEffects EXCEPT !.queryEmbeds = 1])
    ELSE IF fault = "index"
    THEN Raised("IndexError", "similarity search failed",
                [NoEffects EXCEPT !.queryEmbeds = 1, !.indexOps = <<"search">>])
    ELSE LET relevant_docs ==
                 SimilaritySearch(store.entries, question, self.retriever.k)
         IN  Returned([context |-> JoinBlocks(relevant_docs),
                       sources |-> relevant_docs,
                       num_sources |-> Len(relevant_docs)],
                      [NoEffects EXCEPT !.queryEmbeds = 1,
                                        !.indexOps = <<"search">>])

\* variant without the try/except around query: the exception propagates
get_context_for_agent_nocatch(self, store, question, fault) ==
    LET result == query(self, store, question, fault)
    IN  IF result.status = "raised" THEN result
        ELSE Returned(result.value.context, result.effects)

\* F1TechnicalRAG.get_context_for_agent
get_context_for_agent(self, store, question, fault) ==
    LET result == query(self, store, question, fault)
    IN  IF result.status = "raised"
        THEN Returned(<<"Error accessing regulations: ", result.error.msg>>,
                      result.effects)
        ELSE IF result.value.num_sources = 0
        THEN Returned(<<"No relevant information found", " in the regulations.">>,
                      result.effects)
        ELSE Returned(<<"\nBased on the FIA F1 Regulations, here is the relevant information:\n\n">>
                      \o result.value.context
                      \o <<"\n\nUse this information to answer the user's question accurately, citing specific articles when possible.\n">>,
                      result.effects)

\* variant that clears the instance's store and retriever before rebuilding,
\* so a failed rebuild leaves a Ready instance without a retriever
load_and_process_pdf_reset(self, store, fault) ==
    LET chunks == split_documents(Pages)
        opened == OpenStore(store)
        loaded == [NoEffects EXCEPT !.docLoads = 1]
        cleared == [self EXCEPT !.vectorstore = None, !.retriever = None]
    IN  IF fault # "none"
        THEN [Raised("ProviderError", "embedding request failed",
                     [loaded EXCEPT !.chunkEmbeds = 1, !.indexOps = <<"open">>])
              EXCEPT !.value = [self |-> cleared, store |-> opened]]
        ELSE Returned([self |-> [self EXCEPT !.vectorstore = VectorStore,
                                             !.retriever = as_retriever],
                       store |-> AddEntries(opened, chunks)],
                      [loaded EXCEPT !.chunkEmbeds = Len(chunks),
                                     !.indexOps = <<"open", "add">>])

\* F1TechnicalRAG.load_and_process_pdf.  Chroma.from_documents opens the
\* store, embeds every chunk and then adds them in one insertion, so a failure
\* leaves the directory created and the entries as they were.  The outcome
\* carries the instance and the collection as the call leaves them.
load_and_process_pdf(self, store, fault) ==
    LET chunks == split_documents(Pages)
        opened == OpenStore(store)
        loaded == [NoEffects EXCEPT !.docLoads = 1]
    IN  IF fault = "provider"
        THEN [Raised("ProviderError", "embedding request failed",
                     [loaded EXCEPT !.chunkEmbeds = 1, !.indexOps = <<"open">>])
              EXCEPT !.value = [self |-> self, store |-> opened]]
        ELSE IF fault = "index"
        THEN [Raised("IndexError", "collection add failed",
                     [loaded EXCEPT !.chunkEmbeds = Len(chunks),
                                    !.indexOps = <<"open", "add">>])
              EXCEPT !.value = [self |-> self, store |-> opened]]
        ELSE Returned([self |-> [self EXCEPT !.vectorstore = VectorStore,
                                             !.retriever = as_retriever],
                       store |-> AddEntries(opened, chunks)],
                      [loaded EXCEPT !.chunkEmbeds = Len(chunks),
                                     !.indexOps = <<"open", "add">>])

\* variant that does not check the path before loading or building
initialize_rag_pipeline_nocheck(pdf_path, store, fault) ==
    LET rag == [pdf_path |-> pdf_path, embeddings |-> "OpenAIEmbeddings",
                vectorstore |-> None, retriever |-> None]
    IN  IF store.exists
        THEN Returned([self |-> [rag EXCEPT !.vectorstore = VectorStore,
                                            !.retriever = as_retriever],
                       store |-> store],
                      [NoEffects EXCEPT !.indexOps = <<"load">>])
        ELSE load_and_process_pdf(rag, store, fault)

\* variant that rebuilds whether or not ./chroma_db exists
initialize_rag_pipeline_rebuild(pdf_path, store, fault) ==
    LET made == F1TechnicalRAG(pdf_path)
    IN  IF made.status = "raised"
        THEN [made EXCEPT !.value = [self |-> None, store |-> store]]
        ELSE LET built == load_and_process_pdf(made.value, store, fault)
             IN  IF built.status = "raised"
                 THEN [built EXCEPT !.value.self = None]
                 ELSE built

\* initialize_rag_pipeline
initialize_rag_pipeline(pdf_path, store, fault) ==
    LET made == F1TechnicalRAG(pdf_path)
        rag  == made.value
    IN  IF made.status = "raised"
        THEN [made EXCEPT !.value = [self |-> None, store |-> store]]
        ELSE IF store.exists
        THEN IF fault = "index"
             THEN [Raised("InitializationError", "persisted index unreadable",
                          [NoEffects EXCEPT !.indexOps = <<"load">>])
                   EXCEPT !.value = [self |-> None, store |-> store]]
             ELSE Returned([self |-> [rag EXCEPT !.vectorstore = VectorStore,
                                                 !.retriever = as_retriever],
                            store |-> store],
                           [NoEffects EXCEPT !.indexOps = <<"load">>])
        ELSE LET built == load_and_process_pdf(rag, store, fault)
             IN  IF built.status = "raised"
                 THEN [built EXCEPT !.value.self = None]
                 ELSE built

----------------------------------------------------------------------------
(* F1RaceEngineerAgent: the regulation search tool *)

\* `needle in text`, for a needle that is one token of the text
Contains(text, needle) == \E i \in 1..Len(text) : text[i] = needle

\* F1RaceEngineerAgent.search_f1_regulations, on the agent's rag_pipeline
search_f1_regulations(rag_pipeline, store, question, fault) ==
    LET got == get_context_for_agent(rag_pipeline, store, question, fault)
        context_info == got.value
    IN  IF got.status = "raised"
        THEN Returned(<<"I encountered an error while searching the regulations: ",
                        got.error.msg, ". ",
                        "Please try rephrasing your question.">>,
                      got.effects)
        ELSE IF context_info # <<>>
                /\ ~Contains(context_info, "No relevant information found")
        THEN Returned(<<"Based on the FIA F1 Regulations: ">> \o context_info,
                      got.effects)
        ELSE Returned(<<"I couldn't find specific information about that in the current FIA regulations. ",
                        "Could you rephrase your question or ask about a different aspect of F1 regulations?">>,
                      got.effects)

----------------------------------------------------------------------------
(* The state machine of the retrieval core *)

Unborn == [type |-> "Unborn"]

Alive(c) == cores[c] # Unborn

NextCore == CHOOSE c \in CoreIds : ~Alive(c) /\ \A d \in CoreIds : d < c => Alive(d)

HasFreeCore == \E c \in CoreIds : ~Alive(c)

NumChunks == Len(split_documents(Pages))

\* room in the bounded collection for one more insertion of the chunk set
RoomToBuild == Len(chroma.entries) + NumChunks <= MaxBuilds * NumChunks

\* the instance the call just made returned, when that call was a successful
\* initialize_rag_pipeline; 0 otherwise
Summary == IF last.op = "initialize_rag_pipeline" /\ last.status = "returned"
           THEN last.core ELSE 0

NoCall == [op |-> "none", core |-> 0, arg |-> "", fault |-> "none",
           status |-> "returned", error |-> None, value |-> None,
           effects |-> NoEffects, before |-> Absent]

NoToolCall == [name |-> "none", args |-> None, status |-> "returned",
               error |-> "", value |-> None]

Call(op, c, arg, fault, out, v) ==
    [op |-> op, core |-> c, arg |-> arg, fault |-> fault,
     status |-> out.status, error |-> out.error, value |-> v,
     effects |-> out.effects, before |-> chroma]

\* main.py not yet imported: no rag_pipeline global, no session
NoProcess == [pc |-> "import", rag_pipeline |-> 0, inits |-> 0,
              sessions |-> <<>>]

Init ==
    /\ cores = [c \in CoreIds |-> Unborn]
    /\ chroma = Absent
    /\ last = NoCall
    /\ prev = 0
    /\ toolCall = NoToolCall
    /\ proc = NoProcess

\* rag = F1TechnicalRAG(pdf_path)
Construct ==
    \E pdf_path \in Paths :
        LET out == F1TechnicalRAG(pdf_path)
        IN  /\ HasFreeCore
            /\ cores' = IF out.status = "returned"
                        THEN [cores EXCEPT ![NextCore] = out.value]
                        ELSE cores
            /\ last' = Call("F1TechnicalRAG",
                            IF out.status = "returned" THEN NextCore ELSE 0,
                            pdf_path, "none", out, None)
            /\ prev' = Summary
            /\ UNCHANGED <<chroma, toolCall, proc>>

\* rag = initialize_rag_pipeline(pdf_path)
Initialize ==
    \E pdf_path \in Paths, fault \in Faults :
        LET out == initialize_rag_pipeline(pdf_path, chroma, fault)
        IN  /\ HasFreeCore
            /\ chroma.exists \/ RoomToBuild
            /\ cores' = IF out.status = "returned"
                        THEN [cores EXCEPT ![NextCore] = out.value.self]
                        ELSE cores
            /\ chroma' = out.value.store
            /\ last' = Call("initialize_rag_pipeline",
                            IF out.status = "returned" THEN NextCore ELSE 0,
                            pdf_path, fault, out, None)
            /\ prev' = Summary
            /\ UNCHANGED <<toolCall, proc>>

\* rag.load_and_process_pdf()
LoadAndProcessPdf ==
    \E c \in CoreIds, fault \in Faults :
        LET out == load_and_process_pdf(cores[c], chroma, fault)
        IN  /\ Alive(c)
            /\ RoomToBuild
            /\ cores' = [cores EXCEPT ![c] = out.value.self]
            /\ chroma' = out.value.store
            /\ last' = Call("load_and_process_pdf", c, "", fault, out, None)
            /\ prev' = Summary
            /\ UNCHANGED <<toolCall, proc>>

\* rag.query(question)
Query ==
    \E c \in CoreIds, question \in Questions, fault \in Faults :
        LET out == query(cores[c], chroma, question, fault)
        IN  /\ Alive(c)
            /\ last' = Call("query", c, question, fault, out, out.value)
            /\ prev' = Summary
            /\ UNCHANGED <<cores, chroma, toolCall, proc>>

\* rag.get_context_for_agent(question)
GetContextForAgent ==
    \E c \in CoreIds, question \in Questions, fault \in Faults :
        LET out == get_context_for_agent(cores[c], chroma, question, fault)
        IN  /\ Alive(c)
            /\ last' = Call("get_context_for_agent", c, question, fault, out,
                            out.value)
            /\ prev' = Summary
            /\ UNCHANGED <<cores, chroma, toolCall, proc>>

\* F1RaceEngineerAgent(rag).search_f1_regulations(context, query)
SearchF1Regulations ==
    \E c \in CoreIds, question \in Questions, fault \in Faults :
        LET out == search_f1_regulations(cores[c], chroma, question, fault)
        IN  /\ Alive(c)
            /\ last' = Call("search_f1_regulations", c, question, fault, out,
                            out.value)
            /\ prev' = Summary
            /\ UNCHANGED <<cores, chroma, toolCall, proc>>

Next ==
    \/ Construct
    \/ Initialize
    \/ LoadAndProcessPdf
    \/ Query
    \/ GetContextForAgent
    \/ SearchF1Regulations

Spec == Init /\ [][Next]_vars

----------------------------------------------------------------------------
(* F1Tools: the arithmetic tools.  Floats are exact rationals [n, d]; times *)
(* given in tenths of a second are integers.  round() is round-half-even on *)
(* the exact value.                                                         *)

\* bounds of the inputs drawn for the tools
MaxPosition == 12
MaxPoints == 36
MaxRaces == 2

Positions == (0 - 2)..MaxPosition
PointValues == (0 - 2)..MaxPoints
RaceCounts == (0 - 1)..MaxRaces
LaneLengths == {0 - 100, 0, 255, 400}
SpeedLimits == {0 - 80, 0, 60, 80}
TireChangeTenths == {0, 25}

\* F1Tools.RACE_POINTS, keyed by position
RACE_POINTS == <<25, 18, 15, 12, 10, 8, 6, 4, 2, 1>>

\* F1Tools.SPRINT_POINTS, keyed by position
SPRINT_POINTS == <<8, 7, 6, 5, 4, 3, 2, 1>>

FASTEST_LAP_POINTS == 1

\* dict.get(key, default)
DictGet(table, key, default) ==
    IF key \in DOMAIN table THEN table[key] ELSE default

ToolReturned(v) == [status |-> "returned", error |-> "", value |-> v]

ToolRaised(type) == [status |-> "raised", error |-> type, value |-> None]

\* the nearest integer to n / d (d > 0), halves to the even neighbour
RoundHalfEven(n, d) ==
    LET q == n \div d
        r == n % d
    IN  IF 2 * r < d THEN q
        ELSE IF 2 * r > d THEN q + 1
        ELSE IF q % 2 = 0 THEN q ELSE q + 1

RECURSIVE GCD(_, _)
GCD(a, b) == IF b = 0 THEN a ELSE GCD(b, a % b)

\* the rational n / d (d # 0) in lowest terms, with a positive denominator
Rat(n, d) ==
    LET g == GCD(Abs(n), Abs(d))
    IN  IF d < 0 THEN [n |-> (0 - n) \div g, d |-> (0 - d) \div g]
        ELSE [n |-> n \div g, d |-> d \div g]

RatAdd(a, b) == Rat(a.n * b.d + b.n * a.d, a.d * b.d)

RatSub(a, b) == Rat(a.n * b.d - b.n * a.d, a.d * b.d)

RatMul(a, b) == Rat(a.n * b.n, a.d * b.d)

\* a / b for b # 0
RatDiv(a, b) == Rat(a.n * b.d, a.d * b.n)

\* round(x, digits), as an integer count of 10^-digits
Round(x, digits) ==
    RoundHalfEven(x.n * (IF digits = 2 THEN 100 ELSE IF digits = 1 THEN 10 ELSE 1),
                  x.d)

\* F1Tools.calculate_race_points
calculate_race_points(position, has_fastest_lap, is_sprint) ==
    IF is_sprint
    THEN DictGet(SPRINT_POINTS, position, 0)
    ELSE LET points == DictGet(RACE_POINTS, position, 0)
         IN  IF has_fastest_lap /\ position <= 10
             THEN points + FASTEST_LAP_POINTS
             ELSE points

\* variant with a strict comparison of the gap against the points available
calculate_championship_scenario_strict(driver1_points, driver2_points, races_remaining, sprint_races) ==
    LET total_max_points == races_remaining * (25 + 1) + sprint_races * 8
        points_gap == Abs(driver1_points - driver2_points)
        possible == points_gap < total_max_points
    IN  [current_gap |-> points_gap,
         mathematically_possible |-> possible,
         maximum_points_available |-> total_max_points,
         scenarios |->
             << IF possible
                THEN [scenario |-> "Chaser wins all remaining races",
                      outcome |-> "Championship possible"]
                ELSE [scenario |-> "Championship decided",
                      outcome |-> "Mathematically impossible for chaser to win"] >>]

\* F1Tools.calculate_championship_scenario
calculate_championship_scenario(driver1_points, driver2_points, races_remaining, sprint_races) ==
    LET max_race_points == races_remaining * (25 + 1)
        max_sprint_points == sprint_races * 8
        total_max_points == max_race_points + max_sprint_points
        points_gap == Abs(driver1_points - driver2_points)
        leader == IF driver1_points > driver2_points
                  THEN "Driver 1" ELSE "Driver 2"
        chaser == IF leader = "Driver 1" THEN "Driver 2" ELSE "Driver 1"
        mathematically_possible == points_gap <= total_max_points
        points_needed == points_gap + 1
        chaser_current == IF chaser = "Driver 2"
                          THEN driver2_points ELSE driver1_points
        chaser_best_case == chaser_current + total_max_points
        leader_current == IF leader = "Driver 1"
                          THEN driver1_points ELSE driver2_points
        leader_max_allowed == chaser_best_case - 1
        points_leader_can_score == leader_max_allowed - leader_current
        scenarios ==
            IF mathematically_possible
            THEN << [scenario |-> "Chaser wins all remaining races",
                     outcome |-> "Championship possible",
                     condition |->
                         [fmt |-> "Leader must score fewer than {} points total",
                          args |-> <<points_leader_can_score>>]] >>
            ELSE << [scenario |-> "Championship decided",
                     outcome |-> "Mathematically impossible for chaser to win",
                     condition |->
                         [fmt |-> "Gap of {} points exceeds maximum available {}",
                          args |-> <<points_gap, total_max_points>>]] >>
        avg_points_per_race ==
            IF races_remaining > 0
            THEN Rat(points_needed, races_remaining) ELSE Rat(0, 1)
    IN  [current_gap |-> points_gap,
         leader |-> leader,
         chaser |-> chaser,
         mathematically_possible |-> mathematically_possible,
         races_remaining |-> races_remaining,
         sprint_races |-> sprint_races,
         maximum_points_available |-> total_max_points,
         points_chaser_needs |-> points_needed,
         average_points_per_race_needed_tenths |-> Round(avg_points_per_race, 1),
         scenarios |-> scenarios,
         analysis |-> [leader_current |-> leader_current,
                       chaser_current |-> chaser_current,
                       chaser_best_case_total |-> chaser_best_case,
                       leader_max_possible |-> leader_current + total_max_points]]

\* variant that names Driver 1 as advantaged whenever the swing is not negative
calculate_points_swing_tie(driver1_position, driver2_position, driver1_fastest_lap, driver2_fastest_lap) ==
    LET d1_points == calculate_race_points(driver1_position,
                                           driver1_fastest_lap, FALSE)
        d2_points == calculate_race_points(driver2_position,
                                           driver2_fastest_lap, FALSE)
        swing == d1_points - d2_points
    IN  [driver1_points |-> d1_points,
         driver2_points |-> d2_points,
         points_swing |-> swing,
         advantage |-> IF swing >= 0 THEN "Driver 1" ELSE "Driver 2"]

\* F1Tools.calculate_points_swing
calculate_points_swing(driver1_position, driver2_position, driver1_fastest_lap, driver2_fastest_lap) ==
    LET d1_points == calculate_race_points(driver1_position,
                                           driver1_fastest_lap, FALSE)
        d2_points == calculate_race_points(driver2_position,
                                           driver2_fastest_lap, FALSE)
        swing == d1_points - d2_points
    IN  [driver1_points |-> d1_points,
         driver2_points |-> d2_points,
         points_swing |-> swing,
         advantage |-> IF swing > 0 THEN "Driver 1"
                       ELSE IF swing < 0 THEN "Driver 2" ELSE "Equal"]

\* F1Tools.calculate_pit_stop_time_loss; the outcome of the call, which is
\* raised when a float division has a zero divisor.  Rounded results are in
\* hundredths of a second (metres for the distance).
calculate_pit_stop_time_loss(pit_lane_length_meters, pit_lane_speed_limit_kmh, tire_change_tenths) ==
    LET length == Rat(pit_lane_length_meters, 1)
        speed_ms == Rat(pit_lane_speed_limit_kmh * 10, 36)
        tire_change_seconds == Rat(tire_change_tenths, 10)
    IN  IF speed_ms.n = 0
        THEN ToolRaised("ZeroDivisionError")
        ELSE LET pit_lane_time == RatDiv(length, speed_ms)
                 total_time == RatAdd(pit_lane_time, tire_change_seconds)
                 racing_speed_ms == Rat(200 * 10, 36)
                 time_if_racing == RatDiv(length, racing_speed_ms)
                 time_loss == RatSub(total_time, time_if_racing)
             IN  ToolReturned(
                     [pit_lane_time_seconds |-> Round(pit_lane_time, 2),
                      tire_change_time_seconds |-> tire_change_seconds,
                      total_pit_stop_time |-> Round(total_time, 2),
                      time_loss_vs_racing |-> Round(time_loss, 2),
                      details |->
                          [pit_lane_length_m |-> pit_lane_length_meters,
                           speed_limit_kmh |-> pit_lane_speed_limit_kmh,
                           equivalent_distance_lost_m |->
                               Round(RatMul(time_loss, racing_speed_ms), 0)]])

PendingCall(name, args) ==
    [name |-> name, args |-> args, status |-> "pending", error |-> "",
     value |-> None]

\* the tool calls a session may make, each with its arguments
ToolCalls ==
    {PendingCall("calculate_race_points",
                 [position |-> p, has_fastest_lap |-> f, is_sprint |-> s]) :
        p \in Positions, f \in BOOLEAN, s \in BOOLEAN}
    \cup
    {PendingCall("calculate_championship_scenario",
                 [driver1_points |-> a, driver2_points |-> b,
                  races_remaining |-> r, sprint_races |-> s]) :
        a \in PointValues, b \in PointValues, r \in RaceCounts, s \in RaceCounts}
    \cup
    {PendingCall("calculate_points_swing",
                 [driver1_position |-> p, driver2_position |-> q,
                  driver1_fastest_lap |-> f, driver2_fastest_lap |-> g]) :
        p \in Positions, q \in Positions, f \in BOOLEAN, g \in BOOLEAN}
    \cup
    {PendingCall("calculate_pit_stop_time_loss",
                 [pit_lane_length_meters |-> l, pit_lane_speed_limit_kmh |-> v,
                  tire_change_tenths |-> t]) :
        l \in LaneLengths, v \in SpeedLimits, t \in TireChangeTenths}

Pending(name) == toolCall.name = name /\ toolCall.status = "pending"

Finish(out) ==
    /\ toolCall' = [toolCall EXCEPT !.status = out.status,
                                    !.error = out.error,
                                    !.value = out.value]
    /\ UNCHANGED <<cores, chroma, last, prev, proc>>

InitTools ==
    /\ cores = [c \in CoreIds |-> Unborn]
    /\ chroma = Absent
    /\ last = NoCall
    /\ prev = 0
    /\ proc = NoProcess
    /\ toolCall \in ToolCalls

CalculateRacePoints ==
    /\ Pending("calculate_race_points")
    /\ Finish(ToolReturned(
           calculate_race_points(toolCall.args.position,
                                 toolCall.args.has_fastest_lap,
                                 toolCall.args.is_sprint)))

CalculateChampionshipScenario ==
    /\ Pending("calculate_championship_scenario")
    /\ Finish(ToolReturned(
           calculate_championship_scenario(toolCall.args.driver1_points,
                                           toolCall.args.driver2_points,
                                           toolCall.args.races_remaining,
                                           toolCall.args.sprint_races)))

CalculatePointsSwing ==
    /\ Pending("calculate_points_swing")
    /\ Finish(ToolReturned(
           calculate_points_swing(toolCall.args.driver1_position,
                                  toolCall.args.driver2_position,
                                  toolCall.args.driver1_fastest_lap,
                                  toolCall.args.driver2_fastest_lap)))

CalculatePitStopTimeLoss ==
    /\ Pending("calculate_pit_stop_time_loss")
    /\ Finish(calculate_pit_stop_time_loss(
                  toolCall.args.pit_lane_length_meters,
                  toolCall.args.pit_lane_speed_limit_kmh,
                  toolCall.args.tire_change_tenths))

NextTools ==
    \/ CalculateRacePoints
    \/ CalculateChampionshipScenario
    \/ CalculatePointsSwing
    \/ CalculatePitStopTimeLoss

SpecTools == InitTools /\ [][NextTools]_vars

----------------------------------------------------------------------------
(* Properties of the retrieval core (specification Spec) *)

IsString(v) == \A i \in DOMAIN v : v[i] \in STRING

Ready(c) == Alive(c) /\ cores[c].retriever # None

Uninitialized(c) == Alive(c) /\ cores[c].retriever = None

\* the query made inside the last get_context_for_agent call
InnerQuery == query(cores[last.core], chroma, last.arg, last.fault)

\* C1: get_context_for_agent never raises: it returns a string whatever the
\* state of the core and its collaborators, and whenever query raised, the
\* string is 'Error accessing regulations: ' followed by the error's text.
C1_GetContextNeverRaises ==
    last.op = "get_context_for_agent" =>
        /\ last.status = "returned"
        /\ IsString(last.value)
        /\ InnerQuery.status = "raised" =>
               last.value = <<"Error accessing regulations: ",
                              InnerQuery.error.msg>>

\* a Ready core whose embedding provider failed during get_context_for_agent
C1_Witness ==
    /\ last.op = "get_context_for_agent"
    /\ last.fault = "provider"
    /\ Ready(last.core)
    /\ last.value[1] = "Error accessing regulations: "

\* C2: initialize_rag_pipeline(pdf_path) with a pdf_path that references no
\* file raises FileNotFoundError, whether or not ./chroma_db exists, having
\* loaded no document, embedded no chunk and neither loaded nor built an index.
C2_MissingPdfFailsFirst ==
    (last.op = "initialize_rag_pipeline" /\ ~PathExists(last.arg)) =>
        /\ last.status = "raised"
        /\ last.error.type = "FileNotFoundError"
        /\ last.effects = NoEffects
        /\ chroma = last.before

\* the call failed on a missing path while a populated index was persisted
C2_Witness ==
    /\ last.op = "initialize_rag_pipeline"
    /\ ~PathExists(last.arg)
    /\ last.status = "raised"
    /\ last.before.exists
    /\ last.before.entries # <<>>

\* C3: when initialize_rag_pipeline has returned and is called again on the
\* unchanged document, the second call returns unless loading the persisted
\* index fails, both instances are Ready, the persisted index and the result
\* of every query are what they were after the first call, and the second
\* call embeds no chunk: it loads the index.
C3_InitializeIdempotent ==
    (last.op = "initialize_rag_pipeline" /\ prev # 0 /\ PathExists(last.arg)) =>
        /\ last.fault # "index" => last.status = "returned"
        /\ last.status = "returned" =>
              /\ Ready(prev)
              /\ Ready(last.core)
              /\ chroma = last.before
              /\ \A q \in Questions :
                     query(cores[last.core], chroma, q, "none")
                         = query(cores[prev], last.before, q, "none")
              /\ last.effects.chunkEmbeds = 0
              /\ last.effects.docLoads = 0
              /\ last.effects.indexOps = <<"load">>

\* the first call built the index, the second returned after it
C3_Witness ==
    /\ last.op = "initialize_rag_pipeline"
    /\ last.status = "returned"
    /\ prev # 0
    /\ Len(chroma.entries) = NumChunks

\* C4 (as claimed): initialize_rag_pipeline skips the build only when a
\* non-empty index is persisted, so a core it returns Ready has a populated
\* index.
C4_BuildSkippedOnlyForPopulatedIndex ==
    (last.op = "initialize_rag_pipeline" /\ last.status = "returned") =>
        /\ last.effects.chunkEmbeds = 0 =>
               (last.before.exists /\ last.before.entries # <<>>)
        /\ Ready(last.core) => chroma.entries # <<>>

\* the build on core c that the step completes or abandons
BuildOrLoadStep(c) ==
    /\ last'.op \in {"initialize_rag_pipeline", "load_and_process_pdf"}
    /\ last'.core = c

\* C5: a core is Uninitialized (no retriever, no store) from construction
\* until a build or load on it completes, and Ready (retriever and store set)
\* afterwards; query on an Uninitialized core raises the not-ready ValueError
\* without an embedding or index call; a build that raises leaves an
\* Uninitialized core Uninitialized; no step makes a Ready core Uninitialized.
C5_Step ==
    \A c \in CoreIds :
        /\ cores'[c] # Unborn =>
              \/ cores'[c].retriever = None /\ cores'[c].vectorstore = None
              \/ /\ cores'[c].retriever = as_retriever
                 /\ cores'[c].vectorstore = VectorStore
        /\ (cores[c] = Unborn /\ cores'[c] # Unborn /\ cores'[c].retriever # None)
              => (BuildOrLoadStep(c) /\ last'.status = "returned")
        /\ (Uninitialized(c) /\ cores'[c].retriever # None)
              => (BuildOrLoadStep(c) /\ last'.status = "returned")
        /\ (last'.op = "query" /\ last'.core = c /\ Uninitialized(c))
              => /\ last'.status = "raised"
                 /\ last'.error.type = "ValueError"
                 /\ last'.effects = NoEffects
        /\ (Uninitialized(c) /\ BuildOrLoadStep(c) /\ last'.status = "raised")
              => cores'[c].retriever = None
        /\ Ready(c) => cores'[c] # Unborn /\ cores'[c].retriever # None

C5_TwoStates == [][C5_Step]_vars

\* a build on a Ready core failed, and the core is still Ready
C5_Witness ==
    /\ last.op = "load_and_process_pdf"
    /\ last.status = "raised"
    /\ Ready(last.core)
    /\ \E d \in CoreIds : Uninitialized(d)

\* the full ranking of the collection for a question
Ranking(question) == SimilaritySearch(chroma.entries, question, Len(chroma.entries))

Min(a, b) == IF a < b THEN a ELSE b

\* C9: on a Ready core, query returns the first min(4, n) entries of the
\* similarity ranking in ranking order, num_sources equal to their number,
\* and a context of one '[Source: Page <n>]\n<text>' block per source in the
\* same order, separated by blank lines and empty when nothing matched; the
\* retriever's k is 4 on every Ready core, built or loaded.
C9_QueryResult ==
    /\ \A c \in CoreIds : Ready(c) => cores[c].retriever.k = 4
    /\ (last.op = "query" /\ last.status = "returned") =>
          LET sources == last.value.sources
              context == last.value.context
              n == Len(sources)
          IN  /\ Ready(last.core)
              /\ n <= 4
              /\ sources = SubSeq(Ranking(last.arg), 1,
                                  Min(4, Len(chroma.entries)))
              /\ last.value.num_sources = n
              /\ Len(context) = IF n = 0 THEN 0 ELSE 5 * n - 1
              /\ \A i \in 1..n :
                    /\ context[5 * i - 4] = "[Source: Page "
                    /\ context[5 * i - 3] = PageStr(sources[i].page)
                    /\ context[5 * i - 2] = "]\n"
                    /\ context[5 * i - 1] = sources[i].text
                    /\ i < n => context[5 * i] = "\n\n"

\* a query on a collection of more than four entries returned four sources
C9_Witness ==
    /\ last.op = "query"
    /\ last.status = "returned"
    /\ Len(chroma.entries) > 4
    /\ last.value.num_sources = 4

\* the chunks the configured document yields, as index entries hold them
EntryChunks == [i \in 1..Len(chroma.entries) |->
                   [page |-> chroma.entries[i].page,
                    text |-> chroma.entries[i].text]]

\* C10 (as claimed): after a build, the persisted index holds exactly one
\* entry per chunk of the document: a rebuild replaces it, never merges.
C10_OneEntryPerChunk ==
    (/\ last.op \in {"initialize_rag_pipeline", "load_and_process_pdf"}
     /\ last.status = "returned"
     /\ last.effects.chunkEmbeds > 0)
        => EntryChunks = split_documents(Pages)

----------------------------------------------------------------------------
(* Properties of the arithmetic tools (specification SpecTools) *)

Done(name) == toolCall.name = name /\ toolCall.status # "pending"

\* C6 (as claimed): calculate_race_points returns the sprint table's value for
\* positions 1..8 when is_sprint, the race table's value for positions 1..10
\* otherwise, plus 1 only for a fastest lap at a position in the race table,
\* and zero for every position outside the applicable table.
C6_RacePointsTable ==
    Done("calculate_race_points") =>
        LET a == toolCall.args
        IN  /\ toolCall.status = "returned"
            /\ toolCall.value =
                  IF a.is_sprint
                  THEN IF a.position \in 1..8
                       THEN SPRINT_POINTS[a.position] ELSE 0
                  ELSE IF a.position \in 1..10
                       THEN RACE_POINTS[a.position]
                            + (IF a.has_fastest_lap THEN 1 ELSE 0)
                       ELSE 0

\* C7 (as claimed): every arithmetic tool returns a result and never raises,
\* for every numeric input, zero and negative values included.
C7_ToolsTotal ==
    toolCall.status # "raised"

OtherDriver(label) ==
    IF label = "Driver 1" THEN "Driver 2"
    ELSE IF label = "Driver 2" THEN "Driver 1" ELSE label

\* C12: calculate_points_swing returns each driver's points as
\* calculate_race_points on the standard table, points_swing = driver1_points
\* - driver2_points, and advantage 'Driver 1' for a positive swing, 'Driver 2'
\* for a negative one and 'Equal' for zero; with the two drivers' arguments
\* swapped the swing is negated and the labels are swapped.
C12_PointsSwing ==
    Done("calculate_points_swing") =>
        LET a == toolCall.args
            v == toolCall.value
            swapped == calculate_points_swing(a.driver2_position,
                                              a.driver1_position,
                                              a.driver2_fastest_lap,
                                              a.driver1_fastest_lap)
        IN  /\ toolCall.status = "returned"
            /\ v.driver1_points =
                   calculate_race_points(a.driver1_position,
                                         a.driver1_fastest_lap, FALSE)
            /\ v.driver2_points =
                   calculate_race_points(a.driver2_position,
                                         a.driver2_fastest_lap, FALSE)
            /\ v.points_swing = v.driver1_points - v.driver2_points
            /\ v.points_swing > 0 => v.advantage = "Driver 1"
            /\ v.points_swing < 0 => v.advantage = "Driver 2"
            /\ v.points_swing = 0 => v.advantage = "Equal"
            /\ swapped.points_swing = 0 - v.points_swing
            /\ swapped.driver1_points = v.driver2_points
            /\ swapped.driver2_points = v.driver1_points
            /\ swapped.advantage = OtherDriver(v.advantage)

\* two drivers who score the same points: P3 against P3 with no fastest lap
C12_Witness ==
    /\ Done("calculate_points_swing")
    /\ toolCall.args.driver1_position = 3
    /\ toolCall.args.driver2_position = 3
    /\ toolCall.value.points_swing = 0
    /\ toolCall.value.advantage = "Equal"

\* C14 (as claimed): for non-negative inputs, whenever mathematically_possible
\* is true the chaser can finish strictly ahead: points_chaser_needs is at
\* most maximum_points_available, chaser_best_case_total exceeds
\* leader_current, and the N of 'Leader must score fewer than N points total'
\* is at least 1, with the chaser strictly ahead for every leader score in
\* 0..N-1 and not for a leader score of N.
C14_PossibleMeansChaserCanLead ==
    (/\ Done("calculate_championship_scenario")
     /\ toolCall.args.driver1_points >= 0
     /\ toolCall.args.driver2_points >= 0
     /\ toolCall.args.races_remaining >= 0
     /\ toolCall.args.sprint_races >= 0
     /\ toolCall.value.mathematically_possible) =>
        LET v == toolCall.value
            N == v.scenarios[1].condition.args[1]
            best == v.analysis.chaser_best_case_total
            leader == v.analysis.leader_current
        IN  /\ v.points_chaser_needs <= v.maximum_points_available
            /\ best > leader
            /\ N >= 1
            /\ \A x \in 0..(N - 1) : best > leader + x
            /\ ~(best > leader + N)

----------------------------------------------------------------------------
(* Properties of the regulation search tool (specification Spec) *)

\* C13 (as claimed): search_f1_regulations never raises; its reply starts
\* 'Based on the FIA F1 Regulations:' only when retrieval returned at least
\* one chunk; with zero matches it is the 'couldn't find' reply; and when
\* retrieval failed at query time the reply is not presented as regulation
\* content.
C13_SearchReply ==
    last.op = "search_f1_regulations" =>
        /\ last.status = "returned"
        /\ last.value[1] = "Based on the FIA F1 Regulations: " =>
              (InnerQuery.status = "returned"
                  /\ InnerQuery.value.num_sources >= 1)
        /\ (InnerQuery.status = "returned" /\ InnerQuery.value.num_sources = 0)
              => last.value[1] = "I couldn't find specific information about that in the current FIA regulations. "
        /\ InnerQuery.status = "raised" =>
              last.value[1] # "Based on the FIA F1 Regulations: "

----------------------------------------------------------------------------
(* main.py: the worker process (specification SpecMain) *)

\* number of sessions (participants joining a room) the process serves
MaxSessions == 2

\* what an earlier run of the process may have left at ./chroma_db: nothing,
\* a directory without entries, or the index of the document
PersistedStores ==
    {Absent, OpenStore(Absent),
     AddEntries(OpenStore(Absent), split_documents(Pages))}

\* variant of the module-level try/except that logs the failure and goes on
module_init_degraded(out, c) ==
    [proc EXCEPT !.pc = "worker",
                 !.rag_pipeline = IF out.status = "returned" THEN c ELSE 0,
                 !.inits = proc.inits + 1]

\* the module-level try/except around initialize_rag_pipeline(): the global
\* is assigned when the call returns, the exception is re-raised otherwise
module_init(out, c) ==
    IF out.status = "returned"
    THEN [proc EXCEPT !.pc = "worker", !.rag_pipeline = c,
                      !.inits = proc.inits + 1]
    ELSE [proc EXCEPT !.pc = "crashed", !.inits = proc.inits + 1]

\* a job whose entrypoint has connected to its room and awaits a participant
Connected == [pc |-> "waiting", rag_pipeline |-> 0]

\* agent = VoiceAgent(ctx, rag_pipeline); await agent.run(participant), whose
\* F1RaceEngineerAgent gets self.rag_pipeline; run's exception is re-raised
VoiceAgent(rag_pipeline, started) ==
    [pc |-> IF started THEN "running" ELSE "failed",
     rag_pipeline |-> rag_pipeline]

InitMain ==
    /\ cores = [c \in CoreIds |-> Unborn]
    /\ chroma \in PersistedStores
    /\ last = NoCall
    /\ prev = 0
    /\ toolCall = NoToolCall
    /\ proc = NoProcess

\* import of main.py: rag_pipeline = initialize_rag_pipeline().  The default
\* pdf_path is relative: it names the document or no file, depending on the
\* directory the process was started in.
ModuleInit ==
    \E pdf_path \in Paths, fault \in Faults :
        LET out == initialize_rag_pipeline(pdf_path, chroma, fault)
        IN  /\ proc.pc = "import"
            /\ cores' = IF out.status = "returned"
                        THEN [cores EXCEPT ![NextCore] = out.value.self]
                        ELSE cores
            /\ chroma' = out.value.store
            /\ last' = Call("initialize_rag_pipeline",
                            IF out.status = "returned" THEN NextCore ELSE 0,
                            pdf_path, fault, out, None)
            /\ prev' = Summary
            /\ proc' = module_init(out, NextCore)
            /\ UNCHANGED toolCall

\* entrypoint(ctx) up to `await ctx.wait_for_participant()`
Entrypoint ==
    /\ proc.pc = "worker"
    /\ Len(proc.sessions) < MaxSessions
    /\ proc' = [proc EXCEPT !.sessions = Append(proc.sessions, Connected)]
    /\ UNCHANGED <<cores, chroma, last, prev, toolCall>>

\* entrypoint(ctx) from the participant's arrival on: the voice agent is made
\* with the module's rag_pipeline and started, or its start fails
ParticipantJoined ==
    \E i \in 1..Len(proc.sessions), started \in BOOLEAN :
        /\ proc.sessions[i].pc = "waiting"
        /\ proc' = [proc EXCEPT !.sessions[i] =
                        VoiceAgent(proc.rag_pipeline, started)]
        /\ UNCHANGED <<cores, chroma, last, prev, toolCall>>

\* the room disconnects and the session closes
Disconnect ==
    \E i \in 1..Len(proc.sessions) :
        /\ proc.sessions[i].pc = "running"
        /\ proc' = [proc EXCEPT !.sessions[i].pc = "closed"]
        /\ UNCHANGED <<cores, chroma, last, prev, toolCall>>

\* a running session's agent runs search_f1_regulations on its rag_pipeline
SessionSearch ==
    \E i \in 1..Len(proc.sessions), question \in Questions, fault \in Faults :
        LET c == proc.sessions[i].rag_pipeline
            out == search_f1_regulations(cores[c], chroma, question, fault)
        IN  /\ proc.sessions[i].pc = "running"
            /\ c \in CoreIds
            /\ last' = Call("search_f1_regulations", c, question, fault, out,
                            out.value)
            /\ prev' = Summary
            /\ UNCHANGED <<cores, chroma, toolCall, proc>>

NextMain ==
    \/ ModuleInit
    \/ Entrypoint
    \/ ParticipantJoined
    \/ Disconnect
    \/ SessionSearch

SpecMain == InitMain /\ [][NextMain]_vars

QueryOps == {"query", "get_context_for_agent", "search_f1_regulations"}

\* C11: in the process of main.py the retrieval core is built or loaded
\* exactly once, before any session entrypoint runs, and every session uses
\* that instance; when the build or load fails the exception is re-raised
\* and no session entrypoint and no query ever runs.
C11_InitOnceBeforeSessions ==
    /\ proc.inits <= 1
    /\ proc.pc = "import" <=> proc.inits = 0
    /\ (proc.sessions # <<>> \/ last.op \in QueryOps) =>
          /\ proc.pc = "worker"
          /\ proc.inits = 1
          /\ proc.rag_pipeline \in CoreIds
          /\ Ready(proc.rag_pipeline)
    /\ \A i \in 1..Len(proc.sessions) :
          proc.sessions[i].pc # "waiting" =>
              proc.sessions[i].rag_pipeline = proc.rag_pipeline
    /\ last.op \in QueryOps => last.core = proc.rag_pipeline
    /\ proc.pc = "worker" =>
          Cardinality({c \in CoreIds : Alive(c)}) = 1
    /\ proc.pc = "crashed" =>
          /\ last.op = "initialize_rag_pipeline"
          /\ last.status = "raised"
          /\ proc.sessions = <<>>
          /\ \A c \in CoreIds : ~Alive(c)

\* two sessions run on the instance and one has searched the loaded index
C11_Witness ==
    /\ proc.pc = "worker"
    /\ Len(proc.sessions) = 2
    /\ \A i \in 1..2 : proc.sessions[i].pc = "running"
    /\ last.op = "search_f1_regulations"
    /\ last.before.entries # <<>>

=============================================================================
